---------------------------- MODULE Spec2Model ----------------------------
(***************************************************************************)
(* Model of find_bad.py: the label classifier (check and its geometric     *)
(* helpers) and the two corpus scans (run_local, run_s3).                  *)
(*                                                                         *)
(* Numbers.  The program computes with Python numbers; the only non-       *)
(* integer constants are 0.05 (lines 60, 63) and 0.5 (line 113).  The      *)
(* model keeps box coordinates integral and clears the denominators:       *)
(* the shrunk regions are expressed in units of 1/Scale (Scale = 20, as    *)
(* 0.05 = 1/20) and the area threshold in units of 1/2.  On the bounded    *)
(* integer coordinates used here the floating-point comparisons of the     *)
(* program and the exact ones of the model agree.                          *)
(***************************************************************************)
EXTENDS Integers, Sequences, FiniteSets, TLC

VARIABLES
    json_data,  \* the record handed to the classifier (argument of check)
    call,       \* which function has been called on json_data ("none" before)
    ret,        \* what that call produced
    listing,    \* corpus scan: the entries of os.listdir / bucket.list, in order
    mode,       \* corpus scan: "local" (run_local), "s3" (run_s3), "none"
    of,         \* run_s3: the --of argument
    insts,      \* the chunks for which an instance of the scan was started
    idx,        \* per instance: the index i of the next entry of the listing
    status,     \* per instance: "running", "done" or "aborted" (uncaught exception)
    stdout,     \* per instance: the lines printed, each with the entry's index
    checked,    \* per instance: per entry index, what check gave ("none" if not called)
    handled,    \* per instance: the indices that passed the i % of == chunk test
    logged      \* per instance: the indices reported by logging.error("Not a json file")

vars == <<json_data, call, ret, listing, mode, of, insts, idx, status, stdout,
          checked, handled, logged>>

checkVars == <<json_data, call, ret>>
scanVars == <<listing, mode, of, insts, idx, status, stdout, checked, handled, logged>>

----------------------------------------------------------------------------
(* Bounds of the model *)

MaxTexts == 3

MaxEntries == 3

MaxOf == 2

(* 0.05 = 1/Scale: lengths of the shrunk regions are kept in units of 1/Scale *)
Scale == 20

----------------------------------------------------------------------------
(* Input domain of the classifier *)

(* x-extents <<x0, x1>> of text boxes: well-formed, malformed (x1 < x0),
   and touching both vertical edges of the 20-wide images *)
XExtents == { <<1, 11>>, <<11, 1>>, <<0, 20>> }

(* y-extents <<y0, y1>>: inside the top 5% strip of a 40-high image, inside
   its bottom 5% strip, and two in the middle *)
YExtents == { <<1, 2>>, <<38, 39>>, <<10, 30>>, <<5, 35>> }

(* every combination of the extents, and a box malformed in both directions
   (x1 < x0 and y1 < y0), whose area is positive *)
TextBBs ==
    { <<x[1], y[1], x[2], y[2]>> : x \in XExtents, y \in YExtents }
        \cup { <<11, 30, 1, 10>> }

TextBoxes == { [TextBB |-> b] : b \in TextBBs }

(* ImageBB values: a 20 x 40 image, a 20 x 20 image, a malformed one (y1 < y0) *)
ImageBBs == { <<0, 0, 20, 40>>, <<0, 0, 20, 20>>, <<0, 40, 20, 0>> }

NoBB == <<0, 0, 0, 0>>

(* A document handed to json.loads.  valid = FALSE: not JSON at all.
   hasImageText / hasImageBB: whether the object has the key; the value of
   an absent key is a placeholder that nothing reads. *)
Record(valid, hasImageText, hasImageBB, bb, texts) ==
    [valid |-> valid, hasImageText |-> hasImageText, hasImageBB |-> hasImageBB,
     ImageBB |-> bb, ImageText |-> texts]

InvalidJson == Record(FALSE, FALSE, FALSE, NoBB, <<>>)

----------------------------------------------------------------------------
(* Geometric primitives *)

(* mutant: non-strict comparison *)
contains_nonstrict(a, b) ==
    a[1] >= b[1] /\ a[3] <= b[3] /\ a[2] >= b[2] /\ a[4] <= b[4]

(* contains(a, b): true if a is in b, strictly on all four edges.
   Python indices 0..3 are 1..4 here. *)
contains(a, b) ==
    a[1] > b[1] /\ a[3] < b[3] /\ a[2] > b[2] /\ a[4] < b[4]

area(a) == (a[3] - a[1]) * (a[4] - a[2])

(* a box in units of 1/Scale *)
Scaled(a) == <<Scale * a[1], Scale * a[2], Scale * a[3], Scale * a[4]>>

(* [x0, y0 + h*0.05, x1, y1] in units of 1/Scale; h = y1 - y0 *)
not_top_border(bounds) ==
    LET h == bounds[4] - bounds[2]
    IN  <<Scale * bounds[1], Scale * bounds[2] + h, Scale * bounds[3], Scale * bounds[4]>>

(* [x0, y0, x1, y1 - h*0.05] in units of 1/Scale *)
not_bottom_border(bounds) ==
    LET h == bounds[4] - bounds[2]
    IN  <<Scale * bounds[1], Scale * bounds[2], Scale * bounds[3], Scale * bounds[4] - h>>

(* The loop of all_in_border from its k-th text on, with the flags so far.
   examined: the number of texts the loop looked at before it returned. *)
RECURSIVE border_loop(_, _, _, _, _)
border_loop(bounds, texts, k, top, bottom) ==
    IF k > Len(texts)
    THEN [value |-> TRUE, examined |-> k - 1, top |-> top, bottom |-> bottom]
    ELSE LET t == top \/ contains(Scaled(texts[k].TextBB), not_top_border(bounds))
             b == bottom \/ contains(Scaled(texts[k].TextBB), not_bottom_border(bounds))
         IN  IF t /\ b
             THEN [value |-> FALSE, examined |-> k, top |-> t, bottom |-> b]
             ELSE border_loop(bounds, texts, k + 1, t, b)

all_in_border_run(bounds, texts) == border_loop(bounds, texts, 1, FALSE, FALSE)

all_in_border(bounds, texts) == all_in_border_run(bounds, texts).value

(* mutant: the running total is compared with >= *)
RECURSIVE sum_loop_ge(_, _, _, _)
sum_loop_ge(max_area2, texts, k, sum_so_far) ==
    IF k > Len(texts) THEN FALSE
    ELSE LET s == sum_so_far + area(texts[k].TextBB)
         IN  IF 2 * s >= max_area2 THEN TRUE
             ELSE sum_loop_ge(max_area2, texts, k + 1, s)

(* mutant: the areas are not accumulated *)
RECURSIVE sum_loop_noacc(_, _, _, _)
sum_loop_noacc(max_area2, texts, k, sum_so_far) ==
    IF k > Len(texts) THEN FALSE
    ELSE LET s == area(texts[k].TextBB)
         IN  IF 2 * s > max_area2 THEN TRUE
             ELSE sum_loop_noacc(max_area2, texts, k + 1, s)

(* mutant: the first text is left out of the running total *)
RECURSIVE sum_loop_skipfirst(_, _, _, _)
sum_loop_skipfirst(max_area2, texts, k, sum_so_far) ==
    IF k > Len(texts) THEN FALSE
    ELSE LET s == IF k = 1 THEN 0 ELSE sum_so_far + area(texts[k].TextBB)
         IN  IF 2 * s > max_area2 THEN TRUE
             ELSE sum_loop_skipfirst(max_area2, texts, k + 1, s)

(* The loop of is_sum_larger from its k-th text on.  max_area2 is twice
   max_area, so that max_area = a*0.5 is the integer a. *)
RECURSIVE sum_loop(_, _, _, _)
sum_loop(max_area2, texts, k, sum_so_far) ==
    IF k > Len(texts) THEN FALSE
    ELSE LET s == sum_so_far + area(texts[k].TextBB)
         IN  IF 2 * s > max_area2 THEN TRUE
             ELSE sum_loop(max_area2, texts, k + 1, s)

is_sum_larger_ge(max_area2, texts) == sum_loop_ge(max_area2, texts, 1, 0)

is_sum_larger_noacc(max_area2, texts) == sum_loop_noacc(max_area2, texts, 1, 0)

is_sum_larger_skipfirst(max_area2, texts) == sum_loop_skipfirst(max_area2, texts, 1, 0)

is_sum_larger(max_area2, texts) == sum_loop(max_area2, texts, 1, 0)

----------------------------------------------------------------------------
(* check *)

Outcome(v, msg) == [value |-> v, log |-> msg]

(* mutant: a single text box is not rejected *)
very_little_text_never(texts) == FALSE

(* len(texts) == 1 *)
very_little_text(texts) == Len(texts) = 1

(* check(json_data).  value is "True" (bad) or "False" (good), or the
   exception that leaves the function: "ValueError" from json.loads,
   "KeyError" from data['ImageText'] or data['ImageBB'].  log is the
   logging.debug message of the rule that fired. *)
check(j) ==
    IF ~j.valid THEN Outcome("ValueError", "")
    ELSE IF ~j.hasImageText THEN Outcome("KeyError", "ImageText")
    ELSE LET texts == j.ImageText IN
         IF Len(texts) = 0 THEN Outcome("True", "No text")
         ELSE IF very_little_text(texts) THEN Outcome("True", "One text label")
         ELSE IF ~j.hasImageBB THEN Outcome("KeyError", "ImageBB")
         ELSE IF all_in_border(j.ImageBB, texts)
              THEN Outcome("True", "All text is in upper or lower border")
         ELSE IF is_sum_larger(area(j.ImageBB), texts)
              THEN Outcome("True", "Almost everything is text")
         ELSE Outcome("False", "")

----------------------------------------------------------------------------
(* The classifier called on one record *)

NoRet == [value |-> "", log |-> "", examined |-> 0]

NoScan ==
    /\ listing = <<>>
    /\ mode = "none"
    /\ of = 1
    /\ insts = {}
    /\ idx = <<>>
    /\ status = <<>>
    /\ stdout = <<>>
    /\ checked = <<>>
    /\ handled = <<>>
    /\ logged = <<>>

InitCheck ==
    /\ \E valid \in BOOLEAN, hasImageText \in BOOLEAN, hasImageBB \in BOOLEAN :
          /\ ~valid => (~hasImageText /\ ~hasImageBB)
          /\ \E bb \in (IF hasImageBB THEN ImageBBs ELSE {NoBB}) :
             \E n \in (IF hasImageText THEN 0..MaxTexts ELSE {0}) :
             \E texts \in [1..n -> TextBoxes] :
                json_data = Record(valid, hasImageText, hasImageBB, bb, texts)
    /\ call = "none"
    /\ ret = NoRet
    /\ NoScan

(* check(json_data), as the `check FILE` command and both scans call it *)
Check ==
    /\ mode = "none"
    /\ call = "none"
    /\ call' = "check"
    /\ ret' = [value |-> check(json_data).value, log |-> check(json_data).log,
               examined |-> 0]
    /\ UNCHANGED <<json_data, scanVars>>

(* all_in_border(bounds, texts) called on its own *)
AllInBorder ==
    /\ mode = "none"
    /\ call = "none"
    /\ json_data.valid /\ json_data.hasImageText /\ json_data.hasImageBB
    /\ call' = "all_in_border"
    /\ LET r == all_in_border_run(json_data.ImageBB, json_data.ImageText)
       IN  ret' = [value |-> IF all_in_border(json_data.ImageBB, json_data.ImageText)
                             THEN "True" ELSE "False",
                   log |-> "", examined |-> r.examined]
    /\ UNCHANGED <<json_data, scanVars>>

NextCheck == Check \/ AllInBorder

SpecCheck == InitCheck /\ [][NextCheck]_vars

----------------------------------------------------------------------------
(* File names.  A name is a sequence of tokens; a token stands for the
   characters it spells.  The extension tokens are the only ones with a dot. *)

Digits == {"0", "1", "2", "3", "4", "5", "6", "7", "8", "9"}

None == <<>>

(* os.path.splitext(name)[1] *)
splitext_ext(name) ==
    IF name # <<>> /\ name[Len(name)] \in {".json", ".png"} THEN name[Len(name)] ELSE ""

(* the end of the longest run of digits that starts at position k *)
RECURSIVE digits_end(_, _)
digits_end(name, k) ==
    IF k + 1 <= Len(name) /\ name[k + 1] \in Digits THEN digits_end(name, k + 1) ELSE k

(* PATTERN.search(name) for PATTERN = '(.*-Figure-[0-9]+).*\.json': group(1)
   of the match, or None.  The leading .* is greedy: the last "-Figure-"
   that is followed by a digit and, after its digits, by ".json" is taken,
   and [0-9]+ takes all the digits that follow it. *)
PATTERN_search(name) ==
    LET starts == { k \in 1..(Len(name) - 1) :
                      /\ name[k] = "-Figure-"
                      /\ name[k + 1] \in Digits
                      /\ \E m \in (digits_end(name, k + 1) + 1)..Len(name) : name[m] = ".json" }
    IN  IF starts = {} THEN None
        ELSE LET k == CHOOSE x \in starts : \A y \in starts : y <= x
             IN  SubSeq(name, 1, digits_end(name, k + 1))

(* mutant: the verdict of check is not looked at *)
print_lines_any(v, name) ==
    IF PATTERN_search(name) # None THEN <<PATTERN_search(name)>> ELSE <<>>

(* what `if check(...): groups = PATTERN.search(name); if groups: print(groups.group(1))`
   prints for the verdict v of check *)
print_lines(v, name) ==
    IF v = "True" /\ PATTERN_search(name) # None THEN <<PATTERN_search(name)>> ELSE <<>>

----------------------------------------------------------------------------
(* Input domain of the corpus scans *)

PlainName == <<"p", "-Figure-", "7", ".json">>
ThumbName == <<"p", "-Figure-", "1", "2", "-thumb", ".json">>
ChartName == <<"p", "-chart", ".json">>
PngName == <<"p", "-Figure-", "7", ".png">>
DirName == <<"figs">>

(* no text at all: bad *)
BadRecord == Record(TRUE, TRUE, TRUE, <<0, 0, 20, 40>>, <<>>)

(* two text boxes in the middle covering exactly half of the image: good *)
GoodRecord ==
    Record(TRUE, TRUE, TRUE, <<0, 0, 20, 40>>,
           << [TextBB |-> <<1, 10, 11, 30>>], [TextBB |-> <<1, 10, 11, 30>>] >>)

Entry(n, k, c) == [name |-> n, kind |-> k, content |-> c]

(* kind "dir": for run_local an entry that is no file (os.path.isfile is
   false); for run_s3 the key of the listed path itself. *)
Entries ==
    { Entry(PlainName, "file", BadRecord), Entry(PlainName, "file", GoodRecord),
      Entry(PlainName, "file", InvalidJson), Entry(ThumbName, "file", BadRecord),
      Entry(ChartName, "file", BadRecord), Entry(PngName, "file", BadRecord),
      Entry(DirName, "dir", InvalidJson), Entry(PlainName, "dir", BadRecord) }

Listings == UNION { [1..n -> Entries] : n \in 0..MaxEntries }

Indices == 0..(Len(listing) - 1)

Errors == {"ValueError", "KeyError"}

----------------------------------------------------------------------------
(* The corpus scans *)

NoCheck ==
    /\ json_data = InvalidJson
    /\ call = "none"
    /\ ret = NoRet

Started(chunks) ==
    /\ insts = chunks
    /\ idx = [c \in chunks |-> 0]
    /\ status = [c \in chunks |-> "running"]
    /\ stdout = [c \in chunks |-> <<>>]
    /\ checked = [c \in chunks |-> [i \in Indices |-> "none"]]
    /\ handled = [c \in chunks |-> {}]
    /\ logged = [c \in chunks |-> {}]

(* one scan: run_local(path), or run_s3(bucket, path, chunk, of) *)
InitScan ==
    /\ NoCheck
    /\ listing \in Listings
    /\ mode \in {"local", "s3"}
    /\ of \in 1..MaxOf
    /\ mode = "local" => of = 1
    /\ \E chunk \in 0..(of - 1) : Started({chunk})

(* run_s3 started once for every chunk in 0..of-1, over the same listing *)
InitShard ==
    /\ NoCheck
    /\ listing \in Listings
    /\ mode = "s3"
    /\ of \in 1..MaxOf
    /\ Started(0..(of - 1))

(* check(contents) on entry i and what follows it: an exception of check
   is caught nowhere and ends the run; otherwise the identifier is printed
   if the record is bad and its name matches, and the loop goes on. *)
CheckEntry(c, i, key) ==
    LET v == check(key.content).value IN
    /\ checked' = [checked EXCEPT ![c][i] = v]
    /\ IF v \in Errors
       THEN /\ status' = [status EXCEPT ![c] = "aborted"]
            /\ UNCHANGED <<idx, stdout>>
       ELSE /\ stdout' = [stdout EXCEPT
                            ![c] = @ \o [n \in 1..Len(print_lines(v, key.name)) |->
                                            <<i, print_lines(v, key.name)[n]>>]]
            /\ idx' = [idx EXCEPT ![c] = i + 1]
            /\ UNCHANGED status

(* i % of == chunk *)
in_chunk(i, n, chunk) == i % n = chunk

(* one iteration of the loop of run_s3 of the instance with chunk c.  The
   progress message of every 1000th key (logging.info) and the "Run .. of .."
   line go to stderr and change nothing that is modelled. *)
S3Step(c) ==
    /\ mode = "s3"
    /\ status[c] = "running"
    /\ idx[c] < Len(listing)
    /\ LET i == idx[c]
           key == listing[i + 1]
       IN  IF in_chunk(i, of, c)
           THEN /\ handled' = [handled EXCEPT ![c] = @ \cup {i}]
                /\ IF key.kind = "dir"
                   THEN /\ idx' = [idx EXCEPT ![c] = i + 1]
                        /\ UNCHANGED <<status, stdout, checked, logged>>
                   ELSE IF splitext_ext(key.name) = ".json"
                   THEN /\ CheckEntry(c, i, key)
                        /\ UNCHANGED logged
                   ELSE /\ logged' = [logged EXCEPT ![c] = @ \cup {i}]
                        /\ idx' = [idx EXCEPT ![c] = i + 1]
                        /\ UNCHANGED <<status, stdout, checked>>
           ELSE /\ idx' = [idx EXCEPT ![c] = i + 1]
                /\ UNCHANGED <<status, stdout, checked, handled, logged>>
    /\ UNCHANGED <<checkVars, listing, mode, of, insts>>

(* one iteration of the loop of run_local *)
LocalStep(c) ==
    /\ mode = "local"
    /\ status[c] = "running"
    /\ idx[c] < Len(listing)
    /\ LET i == idx[c]
           entry == listing[i + 1]
       IN  /\ handled' = [handled EXCEPT ![c] = @ \cup {i}]
           /\ IF entry.kind = "file" /\ splitext_ext(entry.name) = ".json"
              THEN CheckEntry(c, i, entry)
              ELSE /\ idx' = [idx EXCEPT ![c] = i + 1]
                   /\ UNCHANGED <<status, stdout, checked>>
    /\ UNCHANGED <<checkVars, listing, mode, of, insts, logged>>

(* the listing is exhausted: the function returns *)
Finish(c) ==
    /\ status[c] = "running"
    /\ idx[c] = Len(listing)
    /\ status' = [status EXCEPT ![c] = "done"]
    /\ UNCHANGED <<checkVars, listing, mode, of, insts, idx, stdout, checked, handled, logged>>

NextScan ==
    \/ \E c \in insts : S3Step(c)
    \/ \E c \in insts : LocalStep(c)
    \/ \E c \in insts : Finish(c)

SpecScan == InitScan /\ [][NextScan]_vars

NextShard ==
    \/ \E c \in insts : S3Step(c)
    \/ \E c \in insts : Finish(c)

SpecShard == InitShard /\ [][NextShard]_vars

Next == NextCheck \/ NextScan

Init == InitCheck \/ InitScan \/ InitShard

Spec == Init /\ [][Next]_vars

----------------------------------------------------------------------------
(* Vocabulary of the properties of the classifier *)

Complete(j) == j.valid /\ j.hasImageText /\ j.hasImageBB

Checked == call = "check"

Texts == json_data.ImageText

WellFormed(a) == a[1] <= a[3] /\ a[2] <= a[4]

(* the box lies within the top 5% strip of bb: y0 <= a.y0 <= a.y1 <= y0 + h/20 *)
InTopStrip(bb, a) ==
    /\ WellFormed(a)
    /\ bb[1] <= a[1] /\ a[3] <= bb[3]
    /\ bb[2] <= a[2]
    /\ Scale * a[4] <= Scale * bb[2] + (bb[4] - bb[2])

(* the box lies within the bottom 5% strip of bb: y1 - h/20 <= a.y0 <= a.y1 <= y1 *)
InBottomStrip(bb, a) ==
    /\ WellFormed(a)
    /\ bb[1] <= a[1] /\ a[3] <= bb[3]
    /\ a[4] <= bb[4]
    /\ Scale * a[2] >= Scale * bb[4] - (bb[4] - bb[2])

(* strictly inside bb and strictly clear of both 5% strips *)
StrictlyInMiddle(bb, a) ==
    /\ a[1] > bb[1] /\ a[3] < bb[3]
    /\ a[2] > bb[2] /\ a[4] < bb[4]
    /\ Scale * a[2] > Scale * bb[2] + (bb[4] - bb[2])
    /\ Scale * a[4] < Scale * bb[4] - (bb[4] - bb[2])

RECURSIVE SumAreas(_)
SumAreas(texts) ==
    IF texts = <<>> THEN 0 ELSE area(Head(texts).TextBB) + SumAreas(Tail(texts))

Boxes(texts) == { texts[k].TextBB : k \in 1..Len(texts) }

Perms(n) == { p \in [1..n -> 1..n] : \A a, b \in 1..n : p[a] = p[b] => a = b }

Reordered(j, p) == [j EXCEPT !.ImageText = [k \in 1..Len(j.ImageText) |-> j.ImageText[p[k]]]]

SameVerdictInEveryOrder ==
    \A p \in Perms(Len(Texts)) : check(Reordered(json_data, p)).value = ret.value

AreaRuleLog == "Almost everything is text"

----------------------------------------------------------------------------
(* C1: for every record whose ImageText has zero or one text box, check
   returns bad (True), whatever ImageBB holds (its key may even be absent)
   and whatever the single TextBB is. *)
C1_FewTextsAreBad ==
    (Checked /\ json_data.valid /\ json_data.hasImageText /\ Len(Texts) <= 1)
        => ret.value = "True"

(* a record with one text box strictly in the middle of its image was
   checked and found bad by the one-label rule *)
C1_Witness ==
    /\ Checked /\ Complete(json_data) /\ Len(Texts) = 1
    /\ StrictlyInMiddle(json_data.ImageBB, Texts[1].TextBB)
    /\ ret.value = "True" /\ ret.log = "One text label"

(* C2: for every record with at least 2 text boxes, each of them entirely
   within the top 5% strip or entirely within the bottom 5% strip of ImageBB
   (some in the one, some in the other), all_in_border returns true and
   check returns bad. *)
C2_BorderTextsAreBad ==
    (/\ Checked /\ Complete(json_data) /\ Len(Texts) >= 2
     /\ \A a \in Boxes(Texts) :
            InTopStrip(json_data.ImageBB, a) \/ InBottomStrip(json_data.ImageBB, a))
        => (all_in_border(json_data.ImageBB, Texts) /\ ret.value = "True")

(* C3, as claimed: with at least 2 text boxes and all_in_border false, a sum
   of areas above half the image area gives bad by the area rule, and a sum
   exactly equal to half the image area does not fire the area rule. *)
C3_AreaRule_Original ==
    (Checked /\ Complete(json_data) /\ Len(Texts) >= 2
     /\ ~all_in_border(json_data.ImageBB, Texts))
        => /\ (2 * SumAreas(Texts) > area(json_data.ImageBB))
                => (ret.value = "True" /\ ret.log = AreaRuleLog)
           /\ (2 * SumAreas(Texts) = area(json_data.ImageBB))
                => ret.log # AreaRuleLog

(* C3, amended: with at least 2 text boxes and all_in_border false, a sum of
   areas above half the image area gives bad by the area rule; when no text
   box has negative area, a sum exactly equal to half the image area does
   not fire the area rule (check returns good). *)
C3_AreaRule ==
    (Checked /\ Complete(json_data) /\ Len(Texts) >= 2
     /\ ~all_in_border(json_data.ImageBB, Texts))
        => /\ (2 * SumAreas(Texts) > area(json_data.ImageBB))
                => (ret.value = "True" /\ ret.log = AreaRuleLog)
           /\ (/\ 2 * SumAreas(Texts) = area(json_data.ImageBB)
               /\ \A a \in Boxes(Texts) : area(a) >= 0)
                => (ret.log # AreaRuleLog /\ ret.value = "False")

(* text boxes of non-negative area that add up to exactly half the image
   area, not all in the border: checked and found good *)
C3_Witness ==
    /\ Checked /\ Complete(json_data) /\ Len(Texts) >= 2
    /\ ~all_in_border(json_data.ImageBB, Texts)
    /\ \A a \in Boxes(Texts) : area(a) >= 0
    /\ area(json_data.ImageBB) > 0
    /\ 2 * SumAreas(Texts) = area(json_data.ImageBB)
    /\ ret.value = "False"

(* C4: for every record with at least 2 well-formed text boxes, one of them
   strictly inside the middle of ImageBB, whose areas add up to at most half
   the image area, check returns good (False), also when another text box
   lies in the top 5% strip. *)
C4_MiddleTextIsGood ==
    (/\ Checked /\ Complete(json_data) /\ Len(Texts) >= 2
     /\ \A a \in Boxes(Texts) : WellFormed(a)
     /\ \E a \in Boxes(Texts) : StrictlyInMiddle(json_data.ImageBB, a)
     /\ 2 * SumAreas(Texts) <= area(json_data.ImageBB))
        => ret.value = "False"

(* one text box strictly in the middle, another in the top strip, small
   total area: checked and found good *)
C4_Witness ==
    /\ Checked /\ Complete(json_data) /\ Len(Texts) >= 2
    /\ \A a \in Boxes(Texts) : WellFormed(a)
    /\ \E a \in Boxes(Texts) : StrictlyInMiddle(json_data.ImageBB, a)
    /\ \E a \in Boxes(Texts) : InTopStrip(json_data.ImageBB, a)
    /\ 2 * SumAreas(Texts) <= area(json_data.ImageBB)
    /\ ret.value = "False"

(* C5, as claimed: the verdict of check is the same for every permutation of
   ImageText, malformed text boxes (negative area) included. *)
C5_OrderIndependent_Original ==
    Checked => SameVerdictInEveryOrder

(* C5, amended: for every record none of whose text boxes has negative
   area, check gives the same verdict for every permutation of ImageText. *)
C5_OrderIndependent ==
    (Checked /\ \A a \in Boxes(Texts) : area(a) >= 0) => SameVerdictInEveryOrder

(* three different text boxes of non-negative area, bad by the area rule *)
C5_Witness ==
    /\ Checked /\ Complete(json_data) /\ Len(Texts) = 3
    /\ Cardinality(Boxes(Texts)) = 3
    /\ \A a \in Boxes(Texts) : area(a) >= 0
    /\ ret.value = "True" /\ ret.log = AreaRuleLog

(* C6: for every input that is invalid JSON, or lacks the ImageText key, or
   lacks the ImageBB key, check ends in an error and returns no verdict,
   whatever the number of text boxes. *)
C6_MalformedIsError ==
    (Checked /\ ~Complete(json_data)) => ret.value \in {"ValueError", "KeyError"}

(* C10, as claimed: all_in_border returns true for every list of zero or one
   text box, and returns false early only after examining at least 2. *)
C10_OneBoxOneFlag_Original ==
    call = "all_in_border"
        => /\ Len(Texts) <= 1 => ret.value = "True"
           /\ ret.value = "False" => ret.examined >= 2

(* C10, amended: a single text box sets both flags exactly when it is
   strictly inside both shrunk regions; all_in_border returns true for the
   empty list, returns false for a list of one text box exactly in that
   case, and returns false early only after examining at least 1 box. *)
C10_OneBoxBothFlags ==
    call = "all_in_border"
        => /\ Len(Texts) = 0 => ret.value = "True"
           /\ Len(Texts) = 1 =>
                (ret.value = "False" <=> StrictlyInMiddle(json_data.ImageBB, Texts[1].TextBB))
           /\ ret.value = "False" => ret.examined >= 1

(* all_in_border returned false after examining the only text box *)
C10_Witness ==
    /\ call = "all_in_border" /\ Len(Texts) = 1
    /\ ret.value = "False" /\ ret.examined = 1

----------------------------------------------------------------------------
(* Vocabulary of the properties of the scans *)

(* the lines instance c printed for the entry at index i *)
LinesOf(c, i) ==
    LET mine == SelectSeq(stdout[c], LAMBDA l : l[1] = i)
    IN  [n \in 1..Len(mine) |-> mine[n][2]]

IsJsonRecord(e) == e.kind = "file" /\ e.name[Len(e.name)] = ".json"

(* the positions of a "-Figure-" that a digit follows *)
FigureStarts(name) ==
    { k \in 1..(Len(name) - 1) : name[k] = "-Figure-" /\ name[k + 1] \in Digits }

MatchesFigure(name) == FigureStarts(name) # {}

Stopped(c) == status[c] \in {"done", "aborted"}

BadAndMatching(e) ==
    IsJsonRecord(e) /\ check(e.content).value = "True" /\ MatchesFigure(e.name)

(* C7: during a scan (run_local or run_s3) a line is printed for an entry if
   and only if the entry is a .json record, check classified it as bad and
   its name matches -Figure-<digits>; the line is the captured identifier,
   there is at most one line per entry, and records classified good or with
   a name that does not match give no line. *)
C7_PrintedIffBadAndMatching ==
    \A c \in insts : \A i \in Indices :
        LET e == listing[i + 1] IN
        /\ LinesOf(c, i) =
              IF IsJsonRecord(e) /\ checked[c][i] = "True" /\ MatchesFigure(e.name)
              THEN <<PATTERN_search(e.name)>> ELSE <<>>
        /\ (LinesOf(c, i) # <<>> /\ e.name = ThumbName)
              => LinesOf(c, i) = << <<"p", "-Figure-", "1", "2">> >>
        /\ (LinesOf(c, i) # <<>> /\ e.name = PlainName)
              => LinesOf(c, i) = << <<"p", "-Figure-", "7">> >>

(* a finished scan that printed the identifier of a bad thumbnail record and
   nothing for a good record and for a bad record whose name does not match *)
C7_Witness ==
    \E c \in insts :
        /\ status[c] = "done"
        /\ \E i \in Indices :
              /\ listing[i + 1].name = ThumbName
              /\ LinesOf(c, i) = << <<"p", "-Figure-", "1", "2">> >>
        /\ \E i \in Indices :
              /\ checked[c][i] = "False" /\ LinesOf(c, i) = <<>>
        /\ \E i \in Indices :
              /\ listing[i + 1].name = ChartName
              /\ checked[c][i] = "True" /\ LinesOf(c, i) = <<>>

(* C8: a record whose check fails does not stop the scan: once the scan has
   ended, every later .json record of the instance's share has been checked
   and, if bad and matching, printed. *)
C8_FailureDoesNotStopScan ==
    \A c \in insts : \A i, j \in Indices :
        (/\ Stopped(c) /\ i < j
         /\ checked[c][i] \in Errors
         /\ in_chunk(j, of, c)
         /\ IsJsonRecord(listing[j + 1]))
            => /\ checked[c][j] # "none"
               /\ BadAndMatching(listing[j + 1]) => LinesOf(c, j) # <<>>

(* C9: with run_s3 started for every chunk in 0..N-1 and of = N over the
   same listing, the key at index i is handled by exactly the instance with
   i mod N = chunk (by no other, and by that one once all have ended), and
   the outputs together hold the identifier of each bad matching record
   exactly once. *)
C9_ChunksPartitionListing ==
    /\ \A c \in insts : \A i \in handled[c] : i % of = c
    /\ (\A c \in insts : Stopped(c)) =>
          \A i \in Indices :
             /\ i \in handled[i % of]
             /\ BadAndMatching(listing[i + 1]) =>
                   /\ Len(LinesOf(i % of, i)) = 1
                   /\ \A c \in insts \ {i % of} : LinesOf(c, i) = <<>>

=============================================================================
